---- MODULE Spec2Model ----
(***************************************************************************)
(* Model of pyserum's Market (src/market/market.py): the Market object's   *)
(* fields, and one action per public operation.  Every operation is        *)
(* synchronous; an action is one complete invocation, and records what the *)
(* invocation was called with (args), what the collaborators answered      *)
(* (inside args), which calls it made on the connection, in order (calls), *)
(* and how it ended (outcome, ret).                                        *)
(***************************************************************************)
EXTENDS Integers, Sequences, FiniteSets

VARIABLES
    state,           \* Market.state: the decoded MarketState
    conn,            \* Market._conn: the connection object
    skip_preflight,  \* Market._skip_preflight
    confirmations,   \* Market._confirmations
    op,              \* name of the last operation invoked ("none" after construction)
    args,            \* its arguments and the collaborators' answers
    calls,           \* the calls it made on the connection, in order
    outcome,         \* "ok" or the kind of the exception it raised
    ret              \* the value it returned (None when it raised)

vars == <<state, conn, skip_preflight, confirmations, op, args, calls, outcome, ret>>

\* ---------------------------------------------------------------- bounds
MaxAccounts == 2    \* the locator returns 0..MaxAccounts open-orders accounts
Capacity == 2       \* slots of the event queue ring

\* ---------------------------------------------------------------- values
\* Python's None, and a value that is present
None == <<>>
Some(v) == <<v>>

WRAPPED_SOL_MINT == [pubkey |-> "So11111111111111111111111111111111111111112"]

\* Account.public_key()
public_key(account) == [pubkey |-> account]

Buy == "Buy"
Sell == "Sell"
Side == {Buy, Sell}

\* the exceptions of market.py, by kind
LotSizeTooSmallError == "Exception: lot is too small"
SubmissionError == "Exception: Transaction not sent successfully"
UnsupportedOperationError == "NotImplementedError"
InvalidPayerError == "ValueError: Invalid payer account"
ZeroDivisionError == "ZeroDivisionError"
MissingFieldError == "MissingFieldError"
TransportError == "TransportError"

Raise(kind, made) == [outcome |-> kind, ret |-> None, calls |-> made]
Return(value, made) == [outcome |-> "ok", ret |-> value, calls |-> made]

\* Python's true division, kept exact: the quotient num/den as a fraction
Div(n, d) == [num |-> n, den |-> d]
\* the fraction q equals n/d
FracEq(q, n, d) == q.num * d = n * q.den

\* ---------------------------------------------------------------- MarketState
\* MarketState accessors used by Market
MarketStates ==
    { [ public_key |-> [pubkey |-> "market"],
        program_id |-> [pubkey |-> "dex_program"],
        request_queue |-> [pubkey |-> "request_queue"],
        event_queue |-> [pubkey |-> "event_queue"],
        bids |-> [pubkey |-> "bids"],
        asks |-> [pubkey |-> "asks"],
        base_vault |-> [pubkey |-> "base_vault"],
        quote_vault |-> [pubkey |-> "quote_vault"],
        base_mint |-> m[1],
        quote_mint |-> m[2],
        base_lot_size |-> m[3],
        quote_lot_size |-> 1,
        base_spl_token_multiplier |-> m[4],
        quote_spl_token_multiplier |-> m[5] ] :
      m \in { <<[pubkey |-> "base_mint"], [pubkey |-> "quote_mint"], 1, 1, 1>>,
              <<[pubkey |-> "base_mint"], [pubkey |-> "quote_mint"], 20, 10, 2>>,
              <<[pubkey |-> "base_mint"], WRAPPED_SOL_MINT, 1, 1, 1>>,
              <<WRAPPED_SOL_MINT, [pubkey |-> "quote_mint"], 20, 10, 2>> } }

\* t.MarketOpts
MarketOpts ==
    { [skip_preflight |-> FALSE, confirmations |-> 0],
      [skip_preflight |-> TRUE, confirmations |-> 1] }

\* MarketState.base_size_number_to_lots
base_size_number_to_lots(st, size) ==
    (size * st.base_spl_token_multiplier) \div st.base_lot_size

\* MarketState.price_number_to_lots
price_number_to_lots(st, price) ==
    (price * st.quote_spl_token_multiplier * st.base_lot_size)
        \div (st.base_spl_token_multiplier * st.quote_lot_size)

\* ---------------------------------------------------------------- events
RECURSIVE from_bytes_little(_)
\* int.from_bytes(b, "little")
from_bytes_little(b) ==
    IF b = <<>> THEN 0 ELSE b[1] + 256 * from_bytes_little(Tail(b))

\* the event a ring slot can hold: its order id is the slot's number
SlotEvents(i) ==
    { [ event_flags |-> [fill |-> fp[1], bid |-> (i % 2 = 1), maker |-> (i % 2 = 0)],
        order_id |-> <<i, 1>>,
        native_quantity_paid |-> fp[2],
        native_quantity_released |-> 2,
        native_fee_or_rebate |-> 1 ] :
      fp \in {<<TRUE, 1>>, <<TRUE, 0>>, <<FALSE, 1>>} }

\* the events parse_fill_event is called with
Events ==
    { [ event_flags |-> [fill |-> TRUE, bid |-> b, maker |-> m],
        order_id |-> <<7, 0>>,
        native_quantity_paid |-> p,
        native_quantity_released |-> r,
        native_fee_or_rebate |-> fee ] :
      b \in BOOLEAN, m \in BOOLEAN,
      p \in {0, 500}, r \in {1, 1000}, fee \in {0, 10} }

\* an event queue account: header fields and the ring
Snapshots ==
    { [head |-> h, count |-> c, ring |-> r] :
      h \in {0, Capacity - 1}, c \in 0..Capacity,
      r \in { q \in [1..Capacity -> UNION { SlotEvents(i) : i \in 1..Capacity }] :
                \A i \in 1..Capacity : q[i] \in SlotEvents(i) } }

Min(a, b) == IF a < b THEN a ELSE b

\* decode_event_queue(bytes_data, limit): the min(limit, count) records from head on
decode_event_queue(snapshot, limit) ==
    [ k \in 1..Min(limit, snapshot.count) |->
        snapshot.ring[((snapshot.head + k - 1) % Capacity) + 1] ]

\* price_before_fees with the taker's signs exchanged
price_before_fees_taker_swapped(event) ==
    IF event.event_flags.bid
    THEN IF event.event_flags.maker
         THEN event.native_quantity_released + event.native_fee_or_rebate
         ELSE event.native_quantity_released + event.native_fee_or_rebate
    ELSE IF event.event_flags.maker
         THEN event.native_quantity_released - event.native_fee_or_rebate
         ELSE event.native_quantity_released - event.native_fee_or_rebate

\* price_before_fees with the maker's fee subtracted on a buy
price_before_fees_maker_minus(event) ==
    IF event.event_flags.bid
    THEN event.native_quantity_released - event.native_fee_or_rebate
    ELSE IF event.event_flags.maker
         THEN event.native_quantity_released - event.native_fee_or_rebate
         ELSE event.native_quantity_released + event.native_fee_or_rebate

\* lines 106-119: the price_before_fees of a fill
price_before_fees(event) ==
    IF event.event_flags.bid
    THEN IF event.event_flags.maker
         THEN event.native_quantity_released + event.native_fee_or_rebate
         ELSE event.native_quantity_released - event.native_fee_or_rebate
    ELSE IF event.event_flags.maker
         THEN event.native_quantity_released - event.native_fee_or_rebate
         ELSE event.native_quantity_released + event.native_fee_or_rebate

\* Market.parse_fill_event
parse_fill_event(st, event) ==
    LET side == IF event.event_flags.bid THEN Buy ELSE Sell
        pbf == price_before_fees(event)
        divisor == st.quote_spl_token_multiplier * event.native_quantity_paid
    IN  IF divisor = 0
        THEN Raise(ZeroDivisionError, <<>>)
        ELSE Return([ order_id |-> from_bytes_little(event.order_id),
                      side |-> side,
                      price |-> Div(pbf * st.base_spl_token_multiplier, divisor),
                      size |-> Div(event.native_quantity_paid, st.base_spl_token_multiplier),
                      fee_cost |-> event.native_fee_or_rebate
                                     * (IF event.event_flags.maker THEN 1 ELSE -1) ],
                    <<>>)

\* load_bytes_data(addr, conn): one read of an account on the connection
load_bytes_data(addr) == [method |-> "get_account_info", arg |-> addr]

\* the list comprehension without the native_quantity_paid > 0 condition
fills_of_any_paid(st, events) ==
    LET kept == SelectSeq(events, LAMBDA e : e.event_flags.fill)
        parsed == [i \in DOMAIN kept |-> parse_fill_event(st, kept[i])]
    IN  IF \E i \in DOMAIN parsed : parsed[i].outcome # "ok"
        THEN Raise(ZeroDivisionError, <<>>)
        ELSE Return([i \in DOMAIN parsed |-> parsed[i].ret], <<>>)

\* lines 99-103: the list comprehension of load_fills
fills_of(st, events) ==
    LET kept == SelectSeq(events,
                    LAMBDA e : e.event_flags.fill /\ e.native_quantity_paid > 0)
        parsed == [i \in DOMAIN kept |-> parse_fill_event(st, kept[i])]
    IN  IF \E i \in DOMAIN parsed : parsed[i].outcome # "ok"
        THEN Raise(ZeroDivisionError, <<>>)
        ELSE Return([i \in DOMAIN parsed |-> parsed[i].ret], <<>>)

\* Market.load_fills
load_fills(st, snapshot, limit) ==
    LET events == decode_event_queue(snapshot, limit)
        r == fills_of(st, events)
    IN  [r EXCEPT !.calls = <<load_bytes_data(st.event_queue)>>]

\* ---------------------------------------------------------------- instructions
\* instructions.new_order(NewOrderParams(...))
instructions_new_order(params) == [kind |-> "NewOrder", params |-> params]

\* instructions.match_orders(MatchOrdersParams(...))
instructions_match_orders(params) == [kind |-> "MatchOrders", params |-> params]

\* make_create_account_instruction(owner, new_account, lamports, program_id)
make_create_account_instruction(owner_address, new_account_address, lamports, program_id) ==
    [ kind |-> "CreateAccount",
      params |-> [ from_pubkey |-> owner_address,
                   new_account_pubkey |-> new_account_address,
                   lamports |-> lamports,
                   program_id |-> program_id ] ]

\* instructions.cancel_order(CancelOrderParams(...)): requires the order's
\* open-orders address and slot
instructions_cancel_order(params) ==
    IF params.open_orders = None \/ params.open_orders_slot = None
    THEN Raise(MissingFieldError, <<>>)
    ELSE Return([kind |-> "CancelOrder", params |-> params], <<>>)

\* ---------------------------------------------------------------- submitting
\* what the connection's send_transaction can answer
SendResponses ==
    { [raised |-> TRUE, result |-> None],
      [raised |-> FALSE, result |-> None],
      [raised |-> FALSE, result |-> Some("")],
      [raised |-> FALSE, result |-> Some("5igNature")] }

\* Python's truth value of res.get("result")
Truthy(value) == value # None /\ value[1] # ""

\* _send_transaction that sends again when the response has no signature
_send_transaction_retry(skip, transaction, signers, resp) ==
    LET made == << [ method |-> "send_transaction",
                     arg |-> [ transaction |-> transaction,
                               signers |-> signers,
                               skip_preflight |-> skip ] ] >>
    IN  IF resp.raised
        THEN Raise(TransportError, made)
        ELSE IF ~Truthy(resp.result)
             THEN Raise(SubmissionError, made \o made)
             ELSE Return(resp.result[1], made)

\* Market._send_transaction (the logger's warning when confirmations > 0 has
\* no effect on the result)
_send_transaction(skip, transaction, signers, resp) ==
    LET made == << [ method |-> "send_transaction",
                     arg |-> [ transaction |-> transaction,
                               signers |-> signers,
                               skip_preflight |-> skip ] ] >>
    IN  IF resp.raised
        THEN Raise(TransportError, made)
        ELSE IF ~Truthy(resp.result)
             THEN Raise(SubmissionError, made)
             ELSE Return(resp.result[1], made)

\* ---------------------------------------------------------------- place order
\* Market.make_place_order_instruction
make_place_order_instruction(st, payer, owner, order_type, side, limit_price, max_quantity, client_id, open_order_account) ==
    IF base_size_number_to_lots(st, max_quantity) < 0
    THEN Raise(LotSizeTooSmallError, <<>>)
    ELSE IF price_number_to_lots(st, limit_price) < 0
    THEN Raise(LotSizeTooSmallError, <<>>)
    ELSE Return(instructions_new_order(
                    [ market |-> st.public_key,
                      open_orders |-> open_order_account,
                      payer |-> payer,
                      owner |-> public_key(owner),
                      request_queue |-> st.request_queue,
                      base_vault |-> st.base_vault,
                      quote_vault |-> st.quote_vault,
                      side |-> side,
                      limit_price |-> limit_price,
                      max_quantity |-> max_quantity,
                      order_type |-> order_type,
                      client_id |-> client_id,
                      program_id |-> st.program_id ]),
                <<>>)

\* Market.find_open_orders_accounts_for_owner: one query on the connection
find_open_orders_accounts_for_owner(st, owner_address) ==
    [ method |-> "find_for_market_and_owner",
      arg |-> <<st.public_key, owner_address, st.program_id>> ]

\* line 148: the rent-exemption query
get_minimum_balance_for_rent_exemption ==
    [method |-> "get_minimum_balance_for_rent_exemption", arg |-> "OPEN_ORDERS_LAYOUT.sizeof()"]

\* line 181 always taking the new account
open_order_account_arg_new(open_order_accounts, new_open_orders_account) ==
    public_key(new_open_orders_account)

\* line 181: the open-orders account the new order references
open_order_account_arg(open_order_accounts, new_open_orders_account) ==
    IF open_order_accounts # <<>>
    THEN open_order_accounts[1].address
    ELSE public_key(new_open_orders_account)

\* state.base_mint without a call: the bound method object, not the mint
base_mint_attribute(st) == [bound_method |-> "MarketState.base_mint", self |-> st]

\* lines 166-168: the wrapped-SOL test; state.quote_mint() is called,
\* state.base_mint is not
pays_wrapped_sol(st, side) ==
    \/ side = Buy /\ st.quote_mint = WRAPPED_SOL_MINT
    \/ side = Sell /\ base_mint_attribute(st) = WRAPPED_SOL_MINT

\* lines 143-158: the open-orders query and, when it finds no account, the
\* new account's setup: the calls made, the transaction and the signers so far
place_order_setup(st, a) ==
    LET owner_address == public_key(a.owner)
        query == <<find_open_orders_accounts_for_owner(st, owner_address)>>
    IN  IF a.open_order_accounts = <<>>
        THEN [ made |-> query \o <<get_minimum_balance_for_rent_exemption>>,
               transaction |-> << make_create_account_instruction(owner_address,
                                      public_key(a.new_open_orders_account),
                                      a.mbfre_resp.result, st.program_id) >>,
               signers |-> <<a.owner, a.new_open_orders_account>> ]
        ELSE [ made |-> query, transaction |-> <<>>, signers |-> <<a.owner>> ]

\* place_order that validates the lots only after submitting
place_order_submit_first(st, skip, a) ==
    LET setup == place_order_setup(st, a)
        instr == make_place_order_instruction(st, a.payer, a.owner, a.order_type,
                     a.side, a.limit_price, a.max_quantity, a.client_id,
                     open_order_account_arg(a.open_order_accounts,
                                            a.new_open_orders_account))
        sent == _send_transaction(skip, setup.transaction \o <<instr.ret>>,
                                  setup.signers, a.send_resp)
    IN  IF a.payer = public_key(a.owner)
        THEN Raise(InvalidPayerError, setup.made)
        ELSE IF pays_wrapped_sol(st, a.side)
        THEN Raise(UnsupportedOperationError, setup.made)
        ELSE IF instr.outcome # "ok"
        THEN Raise(instr.outcome, setup.made \o sent.calls)
        ELSE [sent EXCEPT !.calls = setup.made \o sent.calls]

\* Market.place_order; a carries the arguments and the collaborators' answers
place_order(st, skip, a) ==
    LET setup == place_order_setup(st, a)
        instr == make_place_order_instruction(st, a.payer, a.owner, a.order_type,
                     a.side, a.limit_price, a.max_quantity, a.client_id,
                     open_order_account_arg(a.open_order_accounts,
                                            a.new_open_orders_account))
        sent == _send_transaction(skip, setup.transaction \o <<instr.ret>>,
                                  setup.signers, a.send_resp)
    IN  IF a.payer = public_key(a.owner)
        THEN Raise(InvalidPayerError, setup.made)
        ELSE IF pays_wrapped_sol(st, a.side)
        THEN Raise(UnsupportedOperationError, setup.made)
        ELSE IF instr.outcome # "ok"
        THEN Raise(instr.outcome, setup.made)
        ELSE [sent EXCEPT !.calls = setup.made \o sent.calls]

\* ---------------------------------------------------------------- cancel, match
\* Market.make_cancel_order_instruction
make_cancel_order_instruction(st, owner_address, order) ==
    instructions_cancel_order(
        [ market |-> st.public_key,
          owner |-> owner_address,
          open_orders |-> order.open_order_address,
          request_queue |-> st.request_queue,
          side |-> order.side,
          order_id |-> order.order_id,
          open_orders_slot |-> order.open_order_slot,
          program_id |-> st.program_id ])

\* cancel_order that submits whatever the builder produced
cancel_order_unchecked(st, skip, owner, order, resp) ==
    LET instr == make_cancel_order_instruction(st, public_key(owner), order)
    IN  _send_transaction(skip, <<instr.ret>>, <<owner>>, resp)

\* Market.cancel_order
cancel_order(st, skip, owner, order, resp) ==
    LET instr == make_cancel_order_instruction(st, public_key(owner), order)
    IN  IF instr.outcome # "ok"
        THEN Raise(instr.outcome, <<>>)
        ELSE _send_transaction(skip, <<instr.ret>>, <<owner>>, resp)

\* Market.make_match_orders_instruction
make_match_orders_instruction(st, limit) ==
    instructions_match_orders(
        [ market |-> st.public_key,
          request_queue |-> st.request_queue,
          event_queue |-> st.event_queue,
          bids |-> st.bids,
          asks |-> st.asks,
          base_vault |-> st.base_vault,
          quote_vault |-> st.quote_vault,
          limit |-> limit,
          program_id |-> st.program_id ])

\* Market.match_orders
match_orders(st, skip, fee_payer, limit, resp) ==
    _send_transaction(skip, <<make_match_orders_instruction(st, limit)>>, <<fee_payer>>, resp)

\* ---------------------------------------------------------------- inputs
Owner == "owner"
Payers == {public_key(Owner), public_key("payer")}
\* limit_price and max_quantity: negative, converting to 0 lots, converting to >= 1 lot
Prices == {-1, 0, 1}
Quantities == {-1, 1, 2}
Limits == {1, 100}

OpenOrdersNames == <<"open_orders_1", "open_orders_2", "open_orders_3", "open_orders_4">>
\* what the locator answers: n accounts, in the locator's order
OpenOrdersAccounts(n) == [i \in 1..n |-> [address |-> public_key(OpenOrdersNames[i])]]

\* t.Order: the fields make_cancel_order_instruction reads
Orders ==
    { [ open_order_address |-> a, open_order_slot |-> s, side |-> sd, order_id |-> 65537 ] :
      a \in {None, Some(public_key(OpenOrdersNames[1]))},
      s \in {None, Some(3)},
      sd \in Side }

PlaceOrderArgs ==
    { [ payer |-> p, owner |-> Owner, order_type |-> "Limit", side |-> sd,
        limit_price |-> lp, max_quantity |-> mq, client_id |-> 0,
        open_order_accounts |-> OpenOrdersAccounts(n),
        new_open_orders_account |-> "new_open_orders_account",
        mbfre_resp |-> [result |-> 23357760],
        send_resp |-> r ] :
      p \in Payers, sd \in Side, lp \in Prices, mq \in Quantities,
      n \in 0..MaxAccounts, r \in SendResponses }

\* the operations that only raise NotImplementedError
Stubs ==
    { "support_srm_fee_discounts", "find_fee_discount_keys",
      "find_best_fee_discount_key", "find_quote_token_accounts_for_owner",
      "load_orders_for_owner", "load_base_token_for_owner",
      "cancel_order_by_client_id", "settle_funds" }

\* ---------------------------------------------------------------- actions
Init ==
    /\ state \in MarketStates
    /\ conn = "conn"
    /\ \E opts \in MarketOpts :
         /\ skip_preflight = opts.skip_preflight
         /\ confirmations = opts.confirmations
    /\ op = "none"
    /\ args = None
    /\ calls = <<>>
    /\ outcome = "ok"
    /\ ret = None

\* an invocation that resets the confirmations option
Invoke_resetting(name, a, r) ==
    /\ op' = name
    /\ args' = a
    /\ calls' = r.calls
    /\ outcome' = r.outcome
    /\ ret' = r.ret
    /\ confirmations' = 0
    /\ UNCHANGED <<state, conn, skip_preflight>>

\* the effect of one invocation: no method of Market assigns a field of self
Invoke(name, a, r) ==
    /\ op' = name
    /\ args' = a
    /\ calls' = r.calls
    /\ outcome' = r.outcome
    /\ ret' = r.ret
    /\ UNCHANGED <<state, conn, skip_preflight, confirmations>>

Stub ==
    \E name \in Stubs : Invoke(name, None, Raise(UnsupportedOperationError, <<>>))

FindOpenOrdersAccountsForOwner ==
    \E n \in 0..MaxAccounts :
        Invoke("find_open_orders_accounts_for_owner",
               [owner_address |-> public_key(Owner)],
               Return(OpenOrdersAccounts(n),
                      <<find_open_orders_accounts_for_owner(state, public_key(Owner))>>))

ParseFillEvent ==
    \E event \in Events :
        Invoke("parse_fill_event", [event |-> event], parse_fill_event(state, event))

LoadFills ==
    \E snapshot \in Snapshots, limit \in Limits :
        Invoke("load_fills", [snapshot |-> snapshot, limit |-> limit],
               load_fills(state, snapshot, limit))

PlaceOrder ==
    \E a \in PlaceOrderArgs :
        Invoke("place_order", a, place_order(state, skip_preflight, a))

MakePlaceOrderInstruction ==
    \E p \in Payers, sd \in Side, lp \in Prices, mq \in Quantities :
        LET a == [ payer |-> p, owner |-> Owner, order_type |-> "Limit", side |-> sd,
                   limit_price |-> lp, max_quantity |-> mq, client_id |-> 0,
                   open_order_account |-> public_key(OpenOrdersNames[1]) ]
        IN  Invoke("make_place_order_instruction", a,
                   make_place_order_instruction(state, a.payer, a.owner, a.order_type,
                       a.side, a.limit_price, a.max_quantity, a.client_id,
                       a.open_order_account))

CancelOrder ==
    \E order \in Orders, r \in SendResponses :
        Invoke("cancel_order", [owner |-> Owner, order |-> order, send_resp |-> r],
               cancel_order(state, skip_preflight, Owner, order, r))

MakeCancelOrderInstruction ==
    \E order \in Orders :
        Invoke("make_cancel_order_instruction",
               [owner |-> public_key(Owner), order |-> order],
               make_cancel_order_instruction(state, public_key(Owner), order))

MatchOrders ==
    \E limit \in {0, 5}, r \in SendResponses :
        Invoke("match_orders", [fee_payer |-> "fee_payer", limit |-> limit, send_resp |-> r],
               match_orders(state, skip_preflight, "fee_payer", limit, r))

MakeMatchOrdersInstruction ==
    \E limit \in {0, 5} :
        Invoke("make_match_orders_instruction", [limit |-> limit],
               Return(make_match_orders_instruction(state, limit), <<>>))

Next ==
    \/ Stub
    \/ FindOpenOrdersAccountsForOwner
    \/ ParseFillEvent
    \/ LoadFills
    \/ PlaceOrder
    \/ MakePlaceOrderInstruction
    \/ CancelOrder
    \/ MakeCancelOrderInstruction
    \/ MatchOrders
    \/ MakeMatchOrdersInstruction

Spec == Init /\ [][Next]_vars

\* ---------------------------------------------------------------- properties
\* the send_transaction calls of the last invocation
Sends == {i \in DOMAIN calls : calls[i].method = "send_transaction"}
\* the transaction and signers of its submission
Submitted == calls[CHOOSE i \in Sends : TRUE].arg

PriceLots == price_number_to_lots(state, args.limit_price)
SizeLots == base_size_number_to_lots(state, args.max_quantity)

\* C1: make_place_order_instruction fails with the lot-size error and returns
\* no instruction whenever the price or the size converts to less than 1 lot,
\* and an instruction is built (by it or by place_order) only when both
\* conversions are > 0.
C1_LotSizeGuard ==
    /\ op = "make_place_order_instruction" =>
         /\ (PriceLots < 1 \/ SizeLots < 1) =>
                outcome = LotSizeTooSmallError /\ ret = None
         /\ outcome = "ok" => PriceLots > 0 /\ SizeLots > 0
    /\ (op = "place_order" /\ Sends # {}) => PriceLots > 0 /\ SizeLots > 0

\* C2 as claimed: when place_order ends in the lot-size error, no call has
\* been made on the connection.
C2_NoNetworkCallBeforeError ==
    (op = "place_order" /\ outcome = LotSizeTooSmallError) => calls = <<>>

\* C2 amended: when place_order ends in the lot-size error, nothing has been
\* submitted; the open-orders query has been made first, followed by the
\* rent-exemption query exactly when the locator found no account.
C2_NoSubmissionBeforeError ==
    (op = "place_order" /\ outcome = LotSizeTooSmallError) =>
        /\ Sends = {}
        /\ calls[1].method = "find_for_market_and_owner"
        /\ IF args.open_order_accounts = <<>>
           THEN Len(calls) = 2
                /\ calls[2].method = "get_minimum_balance_for_rent_exemption"
           ELSE Len(calls) = 1

C2_Witness ==
    /\ op = "place_order"
    /\ outcome = LotSizeTooSmallError
    /\ args.open_order_accounts = <<>>

\* C3: the transaction place_order submits is [new-order] on the first account
\* the locator returned, signed by the owner alone, or, when the locator
\* returned none, [create-account, new-order] where the new order references
\* the account being created, signed by the owner and the new account.
C3_OpenOrdersResolution ==
    (op = "place_order" /\ Sends # {}) =>
        LET txn == Submitted.transaction
            signer_set == {Submitted.signers[i] : i \in DOMAIN Submitted.signers}
        IN  /\ Cardinality(Sends) = 1
            /\ IF args.open_order_accounts # <<>>
               THEN /\ Len(txn) = 1
                    /\ txn[1].kind = "NewOrder"
                    /\ txn[1].params.open_orders = args.open_order_accounts[1].address
                    /\ signer_set = {args.owner}
               ELSE /\ Len(txn) = 2
                    /\ txn[1].kind = "CreateAccount"
                    /\ txn[2].kind = "NewOrder"
                    /\ txn[1].params.new_account_pubkey
                         = public_key(args.new_open_orders_account)
                    /\ txn[2].params.open_orders = txn[1].params.new_account_pubkey
                    /\ signer_set = {args.owner, args.new_open_orders_account}

C3_Witness ==
    /\ op = "place_order"
    /\ outcome = "ok"
    /\ Len(args.open_order_accounts) = MaxAccounts
    /\ Submitted.transaction[1].params.open_orders = public_key(OpenOrdersNames[1])

\* C4: place_order for an order paid in the wrapped native token (a Buy with a
\* wrapped quote mint, a Sell with a wrapped base mint) fails, submits
\* nothing and, when the payer is not the owner's own key, the failure is
\* the unsupported-operation error.
C4_WrappedSolUnsupported ==
    ( /\ op = "place_order"
      /\ \/ args.side = Buy /\ state.quote_mint = WRAPPED_SOL_MINT
         \/ args.side = Sell /\ state.base_mint = WRAPPED_SOL_MINT ) =>
        /\ outcome # "ok"
        /\ Sends = {}
        /\ args.payer # public_key(args.owner) => outcome = UnsupportedOperationError

\* the event of the last parse_fill_event
Ev == args.event

\* C5 as claimed: for a taker fill, price_before_fees is released - fee on a
\* sell and released + fee on a buy.
C5_TakerPriceAsClaimed ==
    (op = "parse_fill_event" /\ outcome = "ok" /\ ~Ev.event_flags.maker) =>
        FracEq(ret.price,
               (IF Ev.event_flags.bid
                THEN Ev.native_quantity_released + Ev.native_fee_or_rebate
                ELSE Ev.native_quantity_released - Ev.native_fee_or_rebate)
                 * state.base_spl_token_multiplier,
               state.quote_spl_token_multiplier * Ev.native_quantity_paid)

\* C5 amended: for a taker fill, price_before_fees is released - fee on a buy
\* and released + fee on a sell.
C5_TakerPrice ==
    (op = "parse_fill_event" /\ outcome = "ok" /\ ~Ev.event_flags.maker) =>
        FracEq(ret.price,
               (IF Ev.event_flags.bid
                THEN Ev.native_quantity_released - Ev.native_fee_or_rebate
                ELSE Ev.native_quantity_released + Ev.native_fee_or_rebate)
                 * state.base_spl_token_multiplier,
               state.quote_spl_token_multiplier * Ev.native_quantity_paid)

C5_Witness ==
    /\ op = "parse_fill_event"
    /\ outcome = "ok"
    /\ ~Ev.event_flags.maker
    /\ Ev.event_flags.bid
    /\ Ev.native_fee_or_rebate = 10
    /\ Ev.native_quantity_released = 1000
    /\ ret.price.num = 990 * state.base_spl_token_multiplier

\* C6: a maker buy fill with native_quantity_paid > 0 parses to side Buy,
\* price (released + fee) * base_multiplier / (quote_multiplier * paid),
\* size paid / base_multiplier and fee_cost +fee.
C6_MakerBuyFill ==
    ( /\ op = "parse_fill_event"
      /\ Ev.event_flags.bid /\ Ev.event_flags.maker
      /\ Ev.native_quantity_paid > 0 ) =>
        /\ outcome = "ok"
        /\ ret.side = Buy
        /\ FracEq(ret.price,
                  (Ev.native_quantity_released + Ev.native_fee_or_rebate)
                    * state.base_spl_token_multiplier,
                  state.quote_spl_token_multiplier * Ev.native_quantity_paid)
        /\ FracEq(ret.size, Ev.native_quantity_paid, state.base_spl_token_multiplier)
        /\ ret.fee_cost = Ev.native_fee_or_rebate

\* released=1000, fee=10, paid=500, both multipliers 1: price * 500 = 1010, size 500
C6_Witness ==
    /\ op = "parse_fill_event"
    /\ Ev.event_flags.bid /\ Ev.event_flags.maker
    /\ Ev.native_quantity_released = 1000
    /\ Ev.native_fee_or_rebate = 10
    /\ Ev.native_quantity_paid = 500
    /\ state.base_spl_token_multiplier = 1 /\ state.quote_spl_token_multiplier = 1
    /\ ret.price.num * 500 = 1010 * ret.price.den
    /\ ret.size.num = 500 * ret.size.den
    /\ ret.fee_cost = 10

\* the events load_fills decoded, and the positions of those it must keep
Decoded == decode_event_queue(args.snapshot, args.limit)
Kept == {i \in DOMAIN Decoded :
            Decoded[i].event_flags.fill /\ Decoded[i].native_quantity_paid > 0}
\* the j-th kept position, in queue order
KeptAt(j) == CHOOSE i \in Kept : Cardinality({k \in Kept : k <= i}) = j

\* C7: load_fills returns the parsed fill of exactly the decoded events with
\* the fill flag and native_quantity_paid > 0, in the decoded order, and
\* never more results than decoded events.
C7_LoadFills ==
    op = "load_fills" =>
        /\ outcome = "ok"
        /\ Len(ret) = Cardinality(Kept)
        /\ Len(ret) <= Len(Decoded)
        /\ \A j \in 1..Len(ret) :
               ret[j] = parse_fill_event(state, Decoded[KeptAt(j)]).ret

C7_Witness ==
    /\ op = "load_fills"
    /\ Len(Decoded) = 2
    /\ Len(ret) = 1
    /\ args.snapshot.head = 1
    /\ ret[1].order_id = from_bytes_little(args.snapshot.ring[1].order_id)

\* C8: place_order, cancel_order and match_orders call send_transaction at
\* most once; a response without a signature ends in the submission error,
\* and a signature is returned only when the one response carried a
\* non-empty one.
C8_SingleSubmission ==
    op \in {"place_order", "cancel_order", "match_orders"} =>
        /\ Cardinality(Sends) <= 1
        /\ outcome = "ok" =>
             /\ Cardinality(Sends) = 1
             /\ ~args.send_resp.raised
             /\ args.send_resp.result # None
             /\ args.send_resp.result[1] # ""
             /\ ret = args.send_resp.result[1]
        /\ (Sends # {} /\ ~args.send_resp.raised
              /\ (args.send_resp.result = None \/ args.send_resp.result = Some(""))) =>
             outcome = SubmissionError

C8_Witness ==
    /\ op \in {"place_order", "cancel_order", "match_orders"}
    /\ confirmations > 0
    /\ outcome = SubmissionError
    /\ Cardinality(Sends) = 1
    /\ args.send_resp.result = None

C10_FieldsNeverChange ==
    [][ /\ state' = state
        /\ conn' = conn
        /\ skip_preflight' = skip_preflight
        /\ confirmations' = confirmations ]_vars

C10_Witness ==
    /\ op = "place_order"
    /\ outcome = SubmissionError
    /\ confirmations = 1

====
